---------------------------- MODULE Spec2Model ----------------------------
(***************************************************************************)
(* Route (src/src/route/route.cpp): the ordered list of route legs with    *)
(* the spliced departure / STAR / arrival procedure blocks, the offsets of *)
(* the blocks, and the active-leg tracker.                                 *)
(*                                                                         *)
(* Indices are the 0-based indices of the C++ code; at(l, i) reads the     *)
(* i-th element of a list.  The geometry primitives of the atools library  *)
(* (Pos::distanceMeterToLine, Line::distanceMeterToLine, Pos::angleDegTo)  *)
(* are outside the repository: the answers they give for the sample of a   *)
(* call are inputs of that call, drawn from LineDistances and CourseDiffs. *)
(***************************************************************************)
EXTENDS Integers, Sequences, FiniteSets, TLC

VARIABLES
  legs,                 \* QList<RouteLeg>: the Route itself
  entries,              \* flightplan.getEntries()
  departureLegs,        \* proc::MapProcedureLegs departureLegs
  starLegs,             \* proc::MapProcedureLegs starLegs
  arrivalLegs,          \* proc::MapProcedureLegs arrivalLegs
  departureLegsOffset,
  starLegsOffset,
  arrivalLegsOffset,
  activeLeg,
  activePos,
  activeLegResult,
  shownTypes,
  totalDistance,        \* float totalDistance, in NM
  boundingRect,         \* atools::geo::Rect boundingRect
  trueCourse,           \* bool trueCourse
  lastCall              \* the last call of a method of route.cpp

vars == <<legs, entries, departureLegs, starLegs, arrivalLegs,
          departureLegsOffset, starLegsOffset, arrivalLegsOffset,
          activeLeg, activePos, activeLegResult, shownTypes, totalDistance,
          boundingRect, trueCourse, lastCall>>

---------------------------------------------------------------------------
(* Bounds of the model *)

\* Most legs the editor puts into the flight plan while no position is tracked
MaxPlain == 3

\* Most legs the editor puts into the flight plan while positions are tracked
MaxTracked == 2

---------------------------------------------------------------------------
(* Sentinels and units *)

\* map::INVALID_INDEX_VALUE, std::numeric_limits<int>::max()
INVALID_INDEX_VALUE == 2147483647

\* map::INVALID_DISTANCE_VALUE, std::numeric_limits<float>::max(): stands
\* above every distance in meter the model uses
INVALID_DISTANCE_VALUE == 999999999

\* atools::geo::nmToMeter, argument in hundredths of a nautical mile
nmToMeter(hundredthNm) == (hundredthNm * 1852) \div 100

Abs(x) == IF x < 0 THEN -x ELSE x
Min(a, b) == IF a < b THEN a ELSE b
Max(a, b) == IF a > b THEN a ELSE b

---------------------------------------------------------------------------
(* Lists: QList with the 0-based indices of the code *)

at(l, i) == l[i + 1]

\* QList::removeAt: does nothing for an index out of range
removeAt(l, i) ==
  IF i >= 0 /\ i < Len(l)
  THEN SubSeq(l, 1, i) \o SubSeq(l, i + 2, Len(l))
  ELSE l

\* QList::insert: prepends for i <= 0 and appends for i >= size
insert(l, i, x) ==
  LET j == IF i <= 0 THEN 0 ELSE IF i >= Len(l) THEN Len(l) ELSE i
  IN SubSeq(l, 1, j) \o <<x>> \o SubSeq(l, j + 1, Len(l))

---------------------------------------------------------------------------
(* Procedure types (proc::MapProcedureTypes): a leg carries one type bit,  *)
(* a mask is a set of bits, "type & mask" is membership.                   *)

PROCEDURE_NONE == "NONE"
PROCEDURE_DEPARTURE == {"SID", "SID_TRANSITION"}
PROCEDURE_STAR_ALL == {"STAR", "STAR_TRANSITION"}
PROCEDURE_ARRIVAL == {"APPROACH", "MISSED", "TRANSITION"}
PROCEDURE_ARRIVAL_ALL == PROCEDURE_ARRIVAL \cup PROCEDURE_STAR_ALL
PROCEDURE_ALL == PROCEDURE_ARRIVAL_ALL \cup PROCEDURE_DEPARTURE

\* The masks the callers pass to clearProcedures
ClearMasks ==
  {PROCEDURE_ALL, PROCEDURE_DEPARTURE, PROCEDURE_STAR_ALL, PROCEDURE_ARRIVAL}

\* MapProcedureLeg predicates
isAnyDeparture(leg) == leg.mapType \in PROCEDURE_DEPARTURE
isAnyStar(leg) == leg.mapType \in PROCEDURE_STAR_ALL
isArrival(leg) == leg.mapType \in PROCEDURE_ARRIVAL
isMissed(leg) == leg.mapType = "MISSED"
isHold(leg) == leg.type = "HOLD"
\* RouteLeg::isAnyProcedure, RouteLeg::isRoute
isAnyProcedure(leg) == leg.mapType # PROCEDURE_NONE
isRoute(leg) == leg.mapType = PROCEDURE_NONE

---------------------------------------------------------------------------
(* Legs.  pos is the identity of a position (two legs are at the same     *)
(* place iff their pos is equal), linePos1 the start of the procedure      *)
(* leg's line (0: no valid position), index the flight plan entry index.   *)
(* The positions are places on one line, pos the place in NM; distanceTo   *)
(* is the stored distance from the leg before, geometry the points of the  *)
(* line string of a procedure leg.                                         *)

PlainLeg(ident, pos, objType) ==
  [ident |-> ident, pos |-> pos, mapType |-> PROCEDURE_NONE, type |-> "NONE",
   linePos1 |-> 0, turnDirection |-> "", objType |-> objType, index |-> 0,
   distanceTo |-> 0, calculatedDistance |-> 0, geometry |-> <<>>]

\* The legs the editor appends: an airport and an en-route waypoint
PlainLegs == {PlainLeg("APT", 1, "AIRPORT"), PlainLeg("WPT", 4, "WAYPOINT")}

\* proc::MapProcedureLeg
ProcLeg(ident, pos, mapType, type, linePos1, turnDirection) ==
  [ident |-> ident, pos |-> pos, mapType |-> mapType, type |-> type,
   linePos1 |-> linePos1, turnDirection |-> turnDirection,
   calculatedDistance |-> IF pos < linePos1 THEN linePos1 - pos
                          ELSE pos - linePos1,
   geometry |-> <<linePos1, pos>>]

\* A procedure leg with a line string of more than two points
CurvedLeg(l, mid) == [l EXCEPT !.geometry = <<l.linePos1, mid, l.pos>>]

\* proc::MapProcedureLegs: the transition and the approach (SID, STAR) legs
EmptyProcedure == [transitionLegs |-> <<>>, approachLegs |-> <<>>]

\* A SID of two legs, the second a procedure turn that ends over the waypoint
SidProcedure ==
  [transitionLegs |-> <<>>,
   approachLegs |-> <<ProcLeg("D1", 2, "SID", "TRACK", 1, ""),
                      ProcLeg("D2", 4, "SID", "PROCEDURE_TURN", 2, "")>>]

\* A STAR that is one holding pattern over the waypoint
StarProcedure ==
  [transitionLegs |-> <<>>,
   approachLegs |-> <<ProcLeg("S1", 4, "STAR", "HOLD", 4, "L")>>]

\* An approach: a transition that is an initial fix over the waypoint, the
\* final leg, which starts at the fix and has a line string of three points,
\* and one missed approach leg
ApproachProcedure ==
  [transitionLegs |-> <<ProcLeg("T1", 4, "TRANSITION", "INITIAL_FIX", 4, "")>>,
   approachLegs |-> <<CurvedLeg(ProcLeg("A1", 5, "APPROACH", "TRACK", 4, ""), 4),
                      ProcLeg("M1", 6, "MISSED", "TRACK", 5, "")>>]

DepartureProcedures == {EmptyProcedure, SidProcedure}
StarProcedures == {EmptyProcedure, StarProcedure}
ArrivalProcedures == {EmptyProcedure, ApproachProcedure}

\* MapProcedureLegs::size, isEmpty, at: a departure lists the SID before its
\* transition, every other procedure the transition before the approach
procSize(p) == Len(p.transitionLegs) + Len(p.approachLegs)
procIsEmpty(p) == procSize(p) = 0
procList(p) ==
  IF \E i \in 1..Len(p.approachLegs) : isAnyDeparture(p.approachLegs[i])
  THEN p.approachLegs \o p.transitionLegs
  ELSE p.transitionLegs \o p.approachLegs
procAt(p, i) == at(procList(p), i)
clearApproach(p) == [p EXCEPT !.approachLegs = <<>>]
clearTransition(p) == [p EXCEPT !.transitionLegs = <<>>]

\* RouteLeg::createFromApproachLeg(entryIndex, legs, prev)
createFromApproachLeg(i, p) ==
  LET l == procAt(p, i)
  IN [ident |-> l.ident, pos |-> l.pos, mapType |-> l.mapType, type |-> l.type,
      linePos1 |-> l.linePos1, turnDirection |-> l.turnDirection,
      objType |-> "PROCEDURE", index |-> i, distanceTo |-> 0,
      calculatedDistance |-> l.calculatedDistance, geometry |-> l.geometry]

\* FlightplanEntryBuilder::buildFlightplanEntry: the entry of a procedure leg
buildFlightplanEntry(l) == l.ident
\* The entry the editor stores for a leg of the flight plan
entryOf(leg) == leg.ident

---------------------------------------------------------------------------
(* Line distance results (atools::geo::LineDistance) and position samples  *)

\* The result resetActive stores
InvalidLineDistance ==
  [status |-> "INVALID", distance |-> INVALID_DISTANCE_VALUE,
   distanceFrom1 |-> INVALID_DISTANCE_VALUE, distanceFrom2 |-> INVALID_DISTANCE_VALUE]

LineDistance(status, distance, distanceFrom1, distanceFrom2) ==
  [status |-> status, distance |-> distance,
   distanceFrom1 |-> distanceFrom1, distanceFrom2 |-> distanceFrom2]

\* The answers of distanceMeterToLine the model draws from, in meter: on the
\* line 2 km behind its start, 3 km past the end of the line, and before the
\* start of a line that is more than 100 NM away
TooFar == LineDistance("BEFORE_START", 200000, 200000, 204000)
LineDistances ==
  {LineDistance("ALONG_TRACK", 0, 2000, 2000),
   LineDistance("AFTER_END", 3000, 5000, 3000),
   TooFar}

\* The differences between the course of the sample and the course of the
\* next leg the model draws from, in degree
CourseDiffs == {0, 120}

\* map::PosCourse: the default constructed sample is not valid
InvalidPosCourse == [valid |-> FALSE, id |-> 0]
PosCourses == {InvalidPosCourse, [valid |-> TRUE, id |-> 1]}

\* map::MapObjectTypes shownTypes, the bit the tracker reads
MISSED_APPROACH == "MISSED_APPROACH"

---------------------------------------------------------------------------
(* The Route object as a record, and the methods as functions of it        *)

\* atools::geo::Rect() and the box of no position
EmptyRect == [west |-> 0, east |-> 0]

Route ==
  [legs |-> legs, entries |-> entries, departureLegs |-> departureLegs,
   starLegs |-> starLegs, arrivalLegs |-> arrivalLegs,
   departureLegsOffset |-> departureLegsOffset,
   starLegsOffset |-> starLegsOffset, arrivalLegsOffset |-> arrivalLegsOffset,
   activeLeg |-> activeLeg, activePos |-> activePos,
   activeLegResult |-> activeLegResult, shownTypes |-> shownTypes,
   totalDistance |-> totalDistance, boundingRect |-> boundingRect,
   trueCourse |-> trueCourse]

size(r) == Len(r.legs)
isEmpty(r) == Len(r.legs) = 0
getPositionAt(r, i) == at(r.legs, i).pos

hasAnyDepartureProcedure(r) == ~procIsEmpty(r.departureLegs)
hasAnyStarProcedure(r) == ~procIsEmpty(r.starLegs)
hasAnyArrivalProcedure(r) == ~procIsEmpty(r.arrivalLegs)

\* A reset that leaves the active leg as it is
resetActive_keepsLeg(r) ==
  [r EXCEPT !.activeLegResult = InvalidLineDistance,
            !.activePos = InvalidPosCourse]

\* Route::resetActive
resetActive(r) ==
  [r EXCEPT !.activeLegResult = InvalidLineDistance,
            !.activePos = InvalidPosCourse,
            !.activeLeg = INVALID_INDEX_VALUE]

\* An editability rule without the STAR block
canEditLeg_noStar(r, index) ==
  IF hasAnyDepartureProcedure(r)
     /\ index < r.departureLegsOffset + procSize(r.departureLegs)
  THEN FALSE
  ELSE IF hasAnyArrivalProcedure(r) /\ index > r.arrivalLegsOffset
  THEN FALSE
  ELSE TRUE

\* Route::canEditLeg
canEditLeg(r, index) ==
  IF hasAnyDepartureProcedure(r)
     /\ index < r.departureLegsOffset + procSize(r.departureLegs)
  THEN FALSE
  ELSE IF hasAnyStarProcedure(r) /\ index > r.starLegsOffset
  THEN FALSE
  ELSE IF hasAnyArrivalProcedure(r) /\ index > r.arrivalLegsOffset
  THEN FALSE
  ELSE TRUE

\* Route::canEditPoint
canEditPoint(r, index) == isRoute(at(r.legs, index))

\* Route::isPassedLastLeg
isPassedLastLeg(r) ==
  /\ \/ r.activeLeg >= size(r) - 1
     \/ /\ r.activeLeg + 1 < size(r)
        /\ isMissed(at(r.legs, r.activeLeg + 1))
  /\ r.activeLegResult.status = "AFTER_END"

---------------------------------------------------------------------------
(* Route::updateIndicesAndOffsets and Route::updateAll                     *)

\* The clamp of the active leg at the head of updateIndicesAndOffsets
clampActiveLeg(r) ==
  IF r.activeLeg < INVALID_INDEX_VALUE
  THEN Max(Min(r.activeLeg, size(r) - 1), 0)
  ELSE r.activeLeg

\* A scan that records the last index of every kind of leg
RECURSIVE scanOffsets_last(_, _)
scanOffsets_last(r, i) ==
  IF i >= size(r) THEN r
  ELSE
    LET leg == at(r.legs, i)
    IN scanOffsets_last(
         [r EXCEPT !.legs[i + 1].index = i,
                   !.departureLegsOffset =
                      IF isAnyDeparture(leg) THEN i ELSE r.departureLegsOffset,
                   !.starLegsOffset =
                      IF isAnyStar(leg) THEN i ELSE r.starLegsOffset,
                   !.arrivalLegsOffset =
                      IF isArrival(leg) THEN i ELSE r.arrivalLegsOffset],
         i + 1)

\* The loop of updateIndicesAndOffsets from index i on
RECURSIVE scanOffsets(_, _)
scanOffsets(r, i) ==
  IF i >= size(r) THEN r
  ELSE
    LET leg == at(r.legs, i)
        dep == IF isAnyDeparture(leg) /\ r.departureLegsOffset = INVALID_INDEX_VALUE
               THEN i ELSE r.departureLegsOffset
        star == IF isAnyStar(leg) /\ r.starLegsOffset = INVALID_INDEX_VALUE
                THEN i ELSE r.starLegsOffset
        arr == IF isArrival(leg) /\ r.arrivalLegsOffset = INVALID_INDEX_VALUE
               THEN i ELSE r.arrivalLegsOffset
    IN scanOffsets([r EXCEPT !.legs[i + 1].index = i,
                             !.departureLegsOffset = dep,
                             !.starLegsOffset = star,
                             !.arrivalLegsOffset = arr], i + 1)

updateIndicesAndOffsets(r) ==
  scanOffsets([r EXCEPT !.activeLeg = clampActiveLeg(r),
                        !.departureLegsOffset = INVALID_INDEX_VALUE,
                        !.starLegsOffset = INVALID_INDEX_VALUE,
                        !.arrivalLegsOffset = INVALID_INDEX_VALUE], 0)

\* The map objects that carry a magnetic variance (map::NAV_MAGVAR)
NAV_MAGVAR == {"AIRPORT", "VOR", "NDB", "WAYPOINT"}

\* Route::updateMagvar: the flag for a route without any such object
updateMagvar(r) ==
  [r EXCEPT !.trueCourse =
     ~\E i \in 1..Len(r.legs) : r.legs[i].objType \in NAV_MAGVAR]

\* Pos::distanceMeterTo, in NM, for positions on the line
distanceNm(p, q) == IF p < q THEN q - p ELSE p - q

\* RouteLeg::updateDistanceAndCourse(entryIndex, prevLeg): the distance to
\* the leg from the leg before, none for the first leg.  last is <<>> or the
\* leg before.
updateDistanceAndCourse(leg, last) ==
  [leg EXCEPT !.distanceTo =
     IF last = <<>> THEN 0 ELSE distanceNm(leg.pos, last[1].pos)]

\* A route without an airport that only ends the arrival
isAirportAfterArrival_never(r, index) == FALSE

\* Route::isAirportAfterArrival
isAirportAfterArrival(r, index) ==
  /\ ~procIsEmpty(r.arrivalLegs)
  /\ index = Len(r.legs) - 1
  /\ r.legs[index + 1].objType = "AIRPORT"

\* The loop of updateDistancesAndCourse from index i on
RECURSIVE distanceLoop(_, _)
distanceLoop(r, i) ==
  IF i >= Len(r.legs) \/ isAirportAfterArrival(r, i) THEN r
  ELSE
    LET last == IF i = 0 THEN <<>> ELSE <<r.legs[i]>>
        leg == updateDistanceAndCourse(r.legs[i + 1], last)
    IN distanceLoop(
         [r EXCEPT !.legs[i + 1] = leg,
                   !.totalDistance =
                      IF ~isMissed(leg) THEN @ + leg.distanceTo ELSE @],
         i + 1)

\* An update that adds to the total distance it finds
updateDistancesAndCourse_adds(r) == distanceLoop(r, 0)

\* Route::updateDistancesAndCourse
updateDistancesAndCourse(r) ==
  distanceLoop([r EXCEPT !.totalDistance = 0], 0)

\* Route::updateBoundingRect: the box of the positions of the legs
updateBoundingRect(r) ==
  LET places == {r.legs[i].pos : i \in 1..Len(r.legs)}
  IN [r EXCEPT !.boundingRect =
        IF places = {} THEN EmptyRect
        ELSE [west |-> CHOOSE p \in places : \A q \in places : p <= q,
              east |-> CHOOSE p \in places : \A q \in places : p >= q]]

\* Route::updateAll
updateAll(r) ==
  updateBoundingRect(
    updateDistancesAndCourse(updateMagvar(updateIndicesAndOffsets(r))))

---------------------------------------------------------------------------
(* Route::eraseProcedureLegs, clearProcedures, updateProcedureLegs         *)

\* A scan that collects the indexes in ascending order
RECURSIVE collectIndexes_up(_, _, _)
collectIndexes_up(r, type, i) ==
  IF i < 0 THEN <<>>
  ELSE collectIndexes_up(r, type, i - 1)
       \o (IF at(r.legs, i).mapType \in type THEN <<i>> ELSE <<>>)

\* The indexes eraseProcedureLegs collects, scanning from index i down to 0
RECURSIVE collectIndexes(_, _, _)
collectIndexes(r, type, i) ==
  IF i < 0 THEN <<>>
  ELSE (IF at(r.legs, i).mapType \in type THEN <<i>> ELSE <<>>)
       \o collectIndexes(r, type, i - 1)

\* The removal loop of eraseProcedureLegs from position i of indexes on
RECURSIVE eraseAt(_, _, _)
eraseAt(r, indexes, i) ==
  IF i >= Len(indexes) THEN r
  ELSE eraseAt([r EXCEPT !.legs = removeAt(r.legs, at(indexes, i)),
                         !.entries = removeAt(r.entries, at(indexes, i))],
               indexes, i + 1)

eraseProcedureLegs(r, type) ==
  eraseAt(r, collectIndexes(r, type, size(r) - 1), 0)

\* The assignments to the procedure legs at the head of clearProcedures
clearProcedureLegs(r, type) ==
  LET dep1 == IF "SID" \in type THEN clearApproach(r.departureLegs) ELSE r.departureLegs
      dep2 == IF "SID_TRANSITION" \in type THEN clearTransition(dep1) ELSE dep1
      star1 == IF "STAR_TRANSITION" \in type THEN clearTransition(r.starLegs) ELSE r.starLegs
      star2 == IF "STAR" \in type THEN clearApproach(star1) ELSE star1
      arr1 == IF "TRANSITION" \in type THEN clearTransition(r.arrivalLegs) ELSE r.arrivalLegs
      arr2 == IF "APPROACH" \in type THEN clearApproach(arr1) ELSE arr1
  IN [r EXCEPT !.departureLegs = dep2, !.starLegs = star2, !.arrivalLegs = arr2]

clearProcedures(r, type) ==
  updateAll(eraseProcedureLegs(clearProcedureLegs(r, type), type))

\* A departure loop that inserts from index 0 on
RECURSIVE insertDeparture_atZero(_, _)
insertDeparture_atZero(r, i) ==
  IF i >= procSize(r.departureLegs) THEN r
  ELSE
    LET insertIndex == i
        obj == createFromApproachLeg(i, r.departureLegs)
        entry == buildFlightplanEntry(procAt(r.departureLegs, i))
    IN insertDeparture_atZero(
         [r EXCEPT !.legs = insert(r.legs, insertIndex, obj),
                   !.entries = insert(r.entries, insertIndex, entry)],
         i + 1)

\* The departure loop of updateProcedureLegs from i on
RECURSIVE insertDeparture(_, _)
insertDeparture(r, i) ==
  IF i >= procSize(r.departureLegs) THEN r
  ELSE
    LET insertIndex == 1 + i
        obj == createFromApproachLeg(i, r.departureLegs)
        entry == buildFlightplanEntry(procAt(r.departureLegs, insertIndex - 1))
    IN insertDeparture([r EXCEPT !.legs = insert(r.legs, insertIndex, obj),
                                 !.entries = insert(r.entries, insertIndex, entry)],
                       i + 1)

\* The STAR and the arrival loop of updateProcedureLegs from i on
RECURSIVE insertBeforeLast(_, _, _)
insertBeforeLast(r, p, i) ==
  IF i >= procSize(p) THEN r
  ELSE
    LET obj == createFromApproachLeg(i, p)
        entry == buildFlightplanEntry(procAt(p, i))
    IN insertBeforeLast(
         [r EXCEPT !.legs = insert(r.legs, size(r) - 1, obj),
                   !.entries = insert(r.entries, Len(r.entries) - 1, entry)],
         p, i + 1)

\* The offset updateProcedureLegs gives to the departure legs
departureOffset(r) ==
  IF ~procIsEmpty(r.departureLegs) THEN 1 ELSE INVALID_INDEX_VALUE

\* An offset for the STAR and the arrival legs that is the size of the list
beforeLastOffset_size(r, p) ==
  IF ~procIsEmpty(p) THEN size(r) ELSE INVALID_INDEX_VALUE

\* The offset updateProcedureLegs gives to the STAR and to the arrival legs
beforeLastOffset(r, p) ==
  IF ~procIsEmpty(p) THEN size(r) - 1 ELSE INVALID_INDEX_VALUE

updateProcedureLegs(r) ==
  LET r0 == eraseProcedureLegs(r, PROCEDURE_ALL)
      r1 == [r0 EXCEPT !.departureLegsOffset = departureOffset(r0),
                       !.starLegsOffset = INVALID_INDEX_VALUE,
                       !.arrivalLegsOffset = INVALID_INDEX_VALUE]
      r2 == insertDeparture(r1, 0)
      r3 == [r2 EXCEPT !.starLegsOffset = beforeLastOffset(r2, r2.starLegs)]
      r4 == insertBeforeLast(r3, r3.starLegs, 0)
      r5 == [r4 EXCEPT !.arrivalLegsOffset = beforeLastOffset(r4, r4.arrivalLegs)]
  IN insertBeforeLast(r5, r5.arrivalLegs, 0)

---------------------------------------------------------------------------
(* Route::nearestAllLegIndex.  line[i] is the answer of distanceMeterToLine *)
(* for the sample and the line from leg i - 1 to leg i; line[0] the answer  *)
(* for the line from the first leg to the first leg.                        *)

\* A scan that takes the last of the lines at the same distance
RECURSIVE nearestScan_lastWins(_, _, _, _)
nearestScan_lastWins(r, line, i, acc) ==
  IF i >= size(r) THEN acc
  ELSE
    LET result == line[i]
        distance == Abs(result.distance)
    IN nearestScan_lastWins(r, line, i + 1,
         IF result.status # "INVALID" /\ distance <= acc.minDistance
         THEN [minDistance |-> distance,
               crossTrackDistanceMeter |-> result.distance, index |-> i]
         ELSE acc)

\* The loop of nearestAllLegIndex from i on
RECURSIVE nearestScan(_, _, _, _)
nearestScan(r, line, i, acc) ==
  IF i >= size(r) THEN acc
  ELSE
    LET result == line[i]
        distance == Abs(result.distance)
    IN nearestScan(r, line, i + 1,
         IF result.status # "INVALID" /\ distance < acc.minDistance
         THEN [minDistance |-> distance,
               crossTrackDistanceMeter |-> result.distance, index |-> i]
         ELSE acc)

nearestAllLegIndex(r, pos, line) ==
  LET none == [crossTrackDistanceMeter |-> INVALID_DISTANCE_VALUE,
               index |-> INVALID_INDEX_VALUE]
      acc == nearestScan(r, line, 1,
               [minDistance |-> INVALID_DISTANCE_VALUE,
                crossTrackDistanceMeter |-> INVALID_DISTANCE_VALUE,
                index |-> INVALID_INDEX_VALUE])
  IN IF ~pos.valid THEN none
     ELSE IF acc.crossTrackDistanceMeter < INVALID_DISTANCE_VALUE
             /\ Abs(acc.crossTrackDistanceMeter) > nmToMeter(10000)
     THEN none
     ELSE [crossTrackDistanceMeter |-> acc.crossTrackDistanceMeter,
           index |-> acc.index]

---------------------------------------------------------------------------
(* Route::updateActiveLegAndPos                                            *)

\* A comparison without the tolerance
isSmaller_exact(dist1, dist2, epsilon) ==
  Abs(dist1.distance) < Abs(dist2.distance)

\* Route::isSmaller
isSmaller(dist1, dist2, epsilon) ==
  Abs(dist1.distance) < Abs(dist2.distance) + epsilon

\* atools::contains(type, {proc::INITIAL_FIX, proc::START_OF_PROCEDURE})
isInitialFix(leg) == leg.type \in {"INITIAL_FIX", "START_OF_PROCEDURE"}

\* A clamp that takes the first line of the route for an index that is no
\* leg
boundActiveLeg_first(r, leg) ==
  LET a == IF leg >= size(r) THEN 1 ELSE leg
  IN IF size(r) = 1 THEN 0 ELSE IF a = 0 THEN 1 ELSE a

\* The clamp to the size without the step from leg 0 to leg 1
boundActiveLeg_noStep(r, leg) ==
  LET a == IF leg >= size(r) THEN size(r) - 1 ELSE leg
  IN IF size(r) = 1 THEN 0 ELSE a

\* The active leg after the clamp to the size and, for a route of more than
\* one leg, the step from leg 0 to leg 1
boundActiveLeg(r, leg) ==
  LET a == IF leg >= size(r) THEN size(r) - 1 ELSE leg
  IN IF size(r) = 1 THEN 0 ELSE IF a = 0 THEN 1 ELSE a

\* A loop that stops one leg before the end of the list
RECURSIVE skipSamePosition_toLast(_, _)
skipSamePosition_toLast(r, nextLeg) ==
  IF /\ isInitialFix(at(r.legs, nextLeg))
     /\ getPositionAt(r, nextLeg - 1) = getPositionAt(r, nextLeg)
     /\ nextLeg < size(r) - 1
  THEN skipSamePosition_toLast(r, nextLeg + 1)
  ELSE nextLeg

\* The loop that steps over initial fixes when the active leg is no hold
RECURSIVE skipSamePosition(_, _)
skipSamePosition(r, nextLeg) ==
  IF /\ isInitialFix(at(r.legs, nextLeg))
     /\ getPositionAt(r, nextLeg - 1) = getPositionAt(r, nextLeg)
     /\ nextLeg < size(r) - 2
  THEN skipSamePosition(r, nextLeg + 1)
  ELSE nextLeg

\* The loop that steps over initial fixes when the active leg is a hold
RECURSIVE skipInitialFixes(_, _)
skipInitialFixes(r, nextLeg) ==
  IF isInitialFix(at(r.legs, nextLeg)) /\ nextLeg < size(r) - 2
  THEN skipInitialFixes(r, nextLeg + 1)
  ELSE nextLeg

\* The potential next leg of active leg a, for a + 1 < size
nextLegOf(r, a) ==
  IF ~isHold(at(r.legs, a))
  THEN skipSamePosition(r, a + 1)
  ELSE skipInitialFixes(r, a + 1)

\* A decision to leave a hold that takes every hold for a left turn
switchFromHold_left(active, next, nextLegResult, resultHold, courseDiff) ==
  IF next.linePos1 = active.pos
  THEN /\ nextLegResult.status = "ALONG_TRACK"
       /\ Abs(nextLegResult.distance) < nmToMeter(50)
       /\ nextLegResult.distanceFrom1 > nmToMeter(75)
       /\ courseDiff < 25
  ELSE /\ resultHold.status = "ALONG_TRACK"
       /\ resultHold.distance < nmToMeter(50)

\* The decision to leave a hold
switchFromHold(active, next, nextLegResult, resultHold, courseDiff) ==
  IF next.linePos1 = active.pos
  THEN /\ nextLegResult.status = "ALONG_TRACK"
       /\ Abs(nextLegResult.distance) < nmToMeter(50)
       /\ nextLegResult.distanceFrom1 > nmToMeter(75)
       /\ courseDiff < 25
  ELSE /\ resultHold.status = "ALONG_TRACK"
       /\ resultHold.distance <
            (IF active.turnDirection = "R" THEN -nmToMeter(50) ELSE nmToMeter(50))

\* A decision that enters a hold only on a similar course
switchToNextLeg_course(active, next, activeResult, nextLegResult, resultHold, courseDiff) ==
  IF isHold(active)
  THEN switchFromHold(active, next, nextLegResult, resultHold, courseDiff)
  ELSE IF isHold(next)
  THEN Abs(nextLegResult.distance) < nmToMeter(50) /\ courseDiff < 90
  ELSE IF active.type = "PROCEDURE_TURN"
  THEN isSmaller(nextLegResult, activeResult, 100) /\ courseDiff < 45
  ELSE \/ activeResult.status = "AFTER_END"
       \/ isSmaller(nextLegResult, activeResult, 10) /\ courseDiff < 90

\* The decision switchToNextLeg
switchToNextLeg(active, next, activeResult, nextLegResult, resultHold, courseDiff) ==
  IF isHold(active)
  THEN switchFromHold(active, next, nextLegResult, resultHold, courseDiff)
  ELSE IF isHold(next)
  THEN Abs(nextLegResult.distance) < nmToMeter(50)
  ELSE IF active.type = "PROCEDURE_TURN"
  THEN isSmaller(nextLegResult, activeResult, 100) /\ courseDiff < 45
  ELSE \/ activeResult.status = "AFTER_END"
       \/ isSmaller(nextLegResult, activeResult, 10) /\ courseDiff < 90

\* A tracker that goes to any leg, displayed or not
canTrack_anyLeg(r, next) == TRUE

\* Whether the tracker may go to leg next: not onto a missed approach that
\* is not displayed
canTrack(r, next) ==
  ~(~(MISSED_APPROACH \in r.shownTypes) /\ isMissed(next))

\* The locals of a call that returns at once
NoLocals ==
  [firstLeg |-> INVALID_INDEX_VALUE, nextLeg |-> INVALID_INDEX_VALUE,
   switchToNextLeg |-> FALSE]

\* A call that looks for the nearest leg at every sample
track_nearest(r, pos, o) ==
  LET found == nearestAllLegIndex(r, pos, o.line).index
      a == boundActiveLeg(r, found)
      first == IF size(r) = 1 THEN o.line[0] ELSE o.line[a]
      r1 == [r EXCEPT !.activeLeg = a, !.activePos = pos,
                      !.activeLegResult = first]
      nextLeg == nextLegOf(r, a)
      switch == switchToNextLeg(at(r.legs, a), at(r.legs, nextLeg), first,
                                o.line[nextLeg], o.resultHold, o.courseDiff)
  IN IF a + 1 < size(r)
     THEN [route |-> IF switch /\ canTrack(r, at(r.legs, nextLeg))
                     THEN [r1 EXCEPT !.activeLeg = nextLeg,
                                     !.activeLegResult = o.line[nextLeg]]
                     ELSE r1,
           locals |-> [firstLeg |-> a, nextLeg |-> nextLeg,
                       switchToNextLeg |-> switch]]
     ELSE [route |-> r1,
           locals |-> [firstLeg |-> a, nextLeg |-> a + 1,
                       switchToNextLeg |-> FALSE]]

\* The call on a route with legs for a valid sample: the route it leaves
\* and its locals; firstLeg is the active leg before the switch
track(r, pos, o) ==
  LET found == IF r.activeLeg = INVALID_INDEX_VALUE
               THEN nearestAllLegIndex(r, pos, o.line).index
               ELSE r.activeLeg
      a == boundActiveLeg(r, found)
      first == IF size(r) = 1 THEN o.line[0] ELSE o.line[a]
      r1 == [r EXCEPT !.activeLeg = a, !.activePos = pos,
                      !.activeLegResult = first]
      nextLeg == nextLegOf(r, a)
      switch == switchToNextLeg(at(r.legs, a), at(r.legs, nextLeg), first,
                                o.line[nextLeg], o.resultHold, o.courseDiff)
  IN IF a + 1 < size(r)
     THEN [route |-> IF switch /\ canTrack(r, at(r.legs, nextLeg))
                     THEN [r1 EXCEPT !.activeLeg = nextLeg,
                                     !.activeLegResult = o.line[nextLeg]]
                     ELSE r1,
           locals |-> [firstLeg |-> a, nextLeg |-> nextLeg,
                       switchToNextLeg |-> switch]]
     ELSE [route |-> r1,
           locals |-> [firstLeg |-> a, nextLeg |-> a + 1,
                       switchToNextLeg |-> FALSE]]

updateActiveLegAndPos(r, pos, o) ==
  IF isEmpty(r) \/ ~pos.valid
  THEN [route |-> resetActive(r), locals |-> NoLocals]
  ELSE track(r, pos, o)

\* The line to the potential next leg of the leg that ends line i, if any
nextLine(r, i) ==
  IF i >= 1 /\ i + 1 < size(r) THEN {nextLegOf(r, i)} ELSE {}

\* The answers for the lines of the route when the sample is within 100 NM
\* of line i and of the line to its potential next leg at most
nearLine(r, i) ==
  {[j \in 0..(size(r) - 1) |-> IF j \in DOMAIN near THEN near[j] ELSE TooFar] :
     near \in [{i} \cup nextLine(r, i) -> LineDistances]}

\* The answers of the geometry library a call can get for sample pos: for
\* the lines of the route, for the line of a hold, and the course difference
\* to the potential next leg, which stays 0 without a next leg
Answers(r, pos) ==
  IF isEmpty(r) \/ ~pos.valid
  THEN {[line |-> <<>>, resultHold |-> InvalidLineDistance, courseDiff |-> 0]}
  ELSE LET first == IF r.activeLeg = INVALID_INDEX_VALUE
                    THEN 0..(size(r) - 1)
                    ELSE {boundActiveLeg(r, r.activeLeg)}
       IN [line : UNION {nearLine(r, i) : i \in first},
           resultHold : IF \E i \in first : isHold(at(r.legs, i))
                        THEN LineDistances ELSE {InvalidLineDistance},
           courseDiff : IF \E i \in first : nextLine(r, i) # {}
                        THEN CourseDiffs ELSE {0}]

\* Route::setActiveLeg; result is the answer of distanceMeterToLine for the
\* stored sample and the line from leg activeLeg - 1 to leg activeLeg
setActiveLeg(r, value, result) ==
  [r EXCEPT !.activeLeg = IF value > 0 /\ value < size(r) THEN value ELSE 1,
            !.activeLegResult = result]

---------------------------------------------------------------------------
(* Route::getRouteDistances.  The distances are in NM; o is the answer of  *)
(* the geometry library: lineString the result of distanceMeterToLineString *)
(* for the line string of the active leg, distanceTo the distance from the  *)
(* end of the active leg to the sample.                                     *)

\* atools::geo::meterToNm, to whole NM
meterToNm(m) == IF m < 0 THEN -((-m) \div 1852) ELSE m \div 1852

\* The output parameters
OutputNames ==
  {"distFromStart", "distToDest", "nextLegDistance", "crossTrackDistance"}

\* The distances from the end of the active leg to the sample the model
\* draws from, in NM: at the end, near it, and further than any route
DistancesToSample == {0, 2, 20}

\* The sum of the distances up to leg routeIndex, from leg i on
RECURSIVE sumFromStart(_, _, _, _)
sumFromStart(r, routeIndex, activeIsMissed, i) ==
  IF i > routeIndex THEN 0
  ELSE IF ~isMissed(at(r.legs, i)) \/ activeIsMissed
  THEN at(r.legs, i).distanceTo
         + sumFromStart(r, routeIndex, activeIsMissed, i + 1)
  ELSE 0

\* The sum of the distances of the missed approach legs from leg i on
RECURSIVE sumMissed(_, _)
sumMissed(r, i) ==
  IF i >= size(r) THEN 0
  ELSE (IF isMissed(at(r.legs, i)) THEN at(r.legs, i).distanceTo ELSE 0)
         + sumMissed(r, i + 1)

\* A distance to the destination that is not kept above 0
distToDest_noMax(r, routeIndex, activeIsMissed, fromstart, distToCurrent) ==
  IF ~activeIsMissed
  THEN r.totalDistance - fromstart
  ELSE Abs(sumMissed(r, routeIndex + 1) + distToCurrent)

\* The value written to distToDest
distToDest(r, routeIndex, activeIsMissed, fromstart, distToCurrent) ==
  IF ~activeIsMissed
  THEN Max(r.totalDistance - fromstart, 0)
  ELSE Abs(sumMissed(r, routeIndex + 1) + distToCurrent)

\* getRouteDistances for an active leg that is a leg of the route; want are
\* the output parameters that are not null, out the values written
routeDistances(r, want, o) ==
  LET active == at(r.legs, r.activeLeg)
      geometryLeg == isAnyProcedure(active) /\ Len(active.geometry) > 2
      crossTrackDistance ==
        IF geometryLeg
        THEN IF o.lineString.status = "ALONG_TRACK"
             THEN meterToNm(o.lineString.distance)
             ELSE INVALID_DISTANCE_VALUE
        ELSE IF r.activeLegResult.status = "ALONG_TRACK"
        THEN meterToNm(r.activeLegResult.distance)
        ELSE INVALID_DISTANCE_VALUE
      routeIndex == IF r.activeLeg >= size(r) THEN size(r) - 1 ELSE r.activeLeg
      activeIsMissed == isMissed(active)
      distToCurrent ==
        IF ~isMissed(at(r.legs, routeIndex)) \/ activeIsMissed
        THEN IF geometryLeg THEN meterToNm(o.lineString.distanceFrom2)
             ELSE o.distanceTo
        ELSE 0
      fromstart ==
        Abs(sumFromStart(r, routeIndex, activeIsMissed, 0) - distToCurrent)
      values ==
        [distFromStart |-> Max(fromstart, 0),
         distToDest |->
           distToDest(r, routeIndex, activeIsMissed, fromstart, distToCurrent),
         nextLegDistance |-> distToCurrent,
         crossTrackDistance |-> crossTrackDistance]
  IN [returns |-> TRUE, ret |-> TRUE, out |-> [n \in want |-> values[n]]]

\* The outcomes of getRouteDistances: at(activeLeg) is read before the index
\* is put into the bounds, and for an index that is not in the list the read
\* ends the program (returns is FALSE) or gives the values of what is not
\* a leg
getRouteDistances(r, want, o) ==
  IF r.activeLeg = INVALID_INDEX_VALUE
  THEN {[returns |-> TRUE, ret |-> FALSE, out |-> [n \in {} |-> 0]]}
  ELSE IF r.activeLeg \notin 0..(size(r) - 1)
  THEN {[returns |-> FALSE, ret |-> FALSE, out |-> [n \in {} |-> 0]]}
         \cup {[returns |-> TRUE, ret |-> TRUE, out |-> [n \in want |-> v]] :
                 v \in {0, 1}}
  ELSE {routeDistances(r, want, o)}

\* The answers of the geometry library for a call of getRouteDistances
DistanceAnswers(r) ==
  IF /\ r.activeLeg \in 0..(size(r) - 1)
     /\ isAnyProcedure(at(r.legs, r.activeLeg))
     /\ Len(at(r.legs, r.activeLeg).geometry) > 2
  THEN [lineString : LineDistances, distanceTo : {0}]
  ELSE [lineString : {InvalidLineDistance}, distanceTo : DistancesToSample]

---------------------------------------------------------------------------
(* Route::getNearestRouteLegResult and Route::getDistanceFromStart; line   *)
(* are the answers of distanceMeterToLine as for nearestAllLegIndex        *)

\* The loop of getNearestRouteLegResult from i on
RECURSIVE nearestLegScan(_, _, _, _, _)
nearestLegScan(r, line, ignoreNotEditable, i, acc) ==
  IF i >= size(r) THEN acc
  ELSE nearestLegScan(r, line, ignoreNotEditable, i + 1,
         IF ignoreNotEditable /\ ~canEditLeg(r, i) THEN acc
         ELSE IF /\ line[i].status # "INVALID"
                 /\ Abs(line[i].distance) < Abs(acc.minResult.distance)
         THEN [index |-> i, minResult |-> line[i]]
         ELSE acc)

getNearestRouteLegResult(r, valid, line, ignoreNotEditable) ==
  LET none == [index |-> INVALID_INDEX_VALUE, minResult |-> InvalidLineDistance]
  IN IF ~valid THEN none
     ELSE nearestLegScan(r, line, ignoreNotEditable, 1, none)

\* The sum of the distances, in meter, of the legs from i to leg - 1, up to
\* the first missed approach leg
RECURSIVE sumBefore(_, _, _)
sumBefore(r, leg, i) ==
  IF i >= leg \/ isMissed(at(r.legs, i)) THEN 0
  ELSE nmToMeter(100 * at(r.legs, i).distanceTo) + sumBefore(r, leg, i + 1)

\* Route::getDistanceFromStart
getDistanceFromStart(r, valid, line) ==
  LET nearest == getNearestRouteLegResult(r, valid, line, FALSE)
      leg == nearest.index
      result == nearest.minResult
      distFromStart ==
        IF leg < INVALID_INDEX_VALUE /\ result.status = "ALONG_TRACK"
        THEN Max(Abs(sumBefore(r, leg, 1) + result.distanceFrom1), 0)
        ELSE INVALID_DISTANCE_VALUE
  IN meterToNm(distFromStart)

---------------------------------------------------------------------------
(* Route::positionAtDistance                                               *)

\* atools::geo::EMPTY_POS and Pos(): no valid position
EmptyPos == [valid |-> FALSE]

\* The position at a place of the line
Place(p) == [valid |-> TRUE, place |-> p]

\* Pos::interpolate and LineString::interpolate for the fraction base / len:
\* the first place for 0, the last place for 1, a position between them for
\* every other fraction, and no number for a division by 0
interpolate(p1, p2, base, len) ==
  IF len = 0 THEN [valid |-> FALSE, fraction |-> "NaN"]
  ELSE IF base = 0 THEN Place(p1)
  ELSE IF base = len THEN Place(p2)
  ELSE [valid |-> TRUE, from |-> p1, to |-> p2, base |-> base, len |-> len]

\* A search that stops at the leg where the sum reaches the distance
RECURSIVE findLeg_reached(_, _, _, _)
findLeg_reached(r, distFromStartNm, i, total) ==
  IF i >= size(r) - 1
  THEN [foundIndex |-> INVALID_INDEX_VALUE, total |-> total]
  ELSE LET sum == total + at(r.legs, i + 1).distanceTo
       IN IF sum >= distFromStartNm THEN [foundIndex |-> i, total |-> sum]
          ELSE findLeg_reached(r, distFromStartNm, i + 1, sum)

\* The loop of positionAtDistance from i on: the leg that contains the
\* distance
RECURSIVE findLeg(_, _, _, _)
findLeg(r, distFromStartNm, i, total) ==
  IF i >= size(r) - 1
  THEN [foundIndex |-> INVALID_INDEX_VALUE, total |-> total]
  ELSE LET sum == total + at(r.legs, i + 1).distanceTo
       IN IF sum > distFromStartNm THEN [foundIndex |-> i, total |-> sum]
          ELSE findLeg(r, distFromStartNm, i + 1, sum)

positionAtDistance(r, distFromStartNm) ==
  IF distFromStartNm < 0 \/ distFromStartNm > r.totalDistance
  THEN EmptyPos
  ELSE
    LET found == findLeg(r, distFromStartNm, 0, 0)
    IN IF found.foundIndex < size(r) - 1
       THEN LET foundIndex == found.foundIndex + 1
                leg == at(r.legs, foundIndex)
            IN IF Len(leg.geometry) > 2
               THEN interpolate(leg.geometry[1], leg.geometry[Len(leg.geometry)],
                      distFromStartNm - (found.total - leg.calculatedDistance),
                      leg.calculatedDistance)
               ELSE interpolate(getPositionAt(r, foundIndex - 1),
                      getPositionAt(r, foundIndex),
                      distFromStartNm - (found.total - leg.distanceTo),
                      leg.distanceTo)
       ELSE EmptyPos

---------------------------------------------------------------------------
(* The state machine                                                       *)

\* The last call of a method of route.cpp: the method, whether its sample
\* was valid, and the locals of updateActiveLegAndPos
Call(op) == [op |-> op, valid |-> FALSE, locals |-> NoLocals]

Becomes(r) ==
  /\ legs' = r.legs
  /\ entries' = r.entries
  /\ departureLegs' = r.departureLegs
  /\ starLegs' = r.starLegs
  /\ arrivalLegs' = r.arrivalLegs
  /\ departureLegsOffset' = r.departureLegsOffset
  /\ starLegsOffset' = r.starLegsOffset
  /\ arrivalLegsOffset' = r.arrivalLegsOffset
  /\ activeLeg' = r.activeLeg
  /\ activePos' = r.activePos
  /\ activeLegResult' = r.activeLegResult
  /\ shownTypes' = r.shownTypes
  /\ totalDistance' = r.totalDistance
  /\ boundingRect' = r.boundingRect
  /\ trueCourse' = r.trueCourse

\* Route::Route
Init ==
  /\ legs = <<>>
  /\ entries = <<>>
  /\ departureLegs = EmptyProcedure
  /\ starLegs = EmptyProcedure
  /\ arrivalLegs = EmptyProcedure
  /\ departureLegsOffset = INVALID_INDEX_VALUE
  /\ starLegsOffset = INVALID_INDEX_VALUE
  /\ arrivalLegsOffset = INVALID_INDEX_VALUE
  /\ activeLeg = INVALID_INDEX_VALUE
  /\ activePos = InvalidPosCourse
  /\ activeLegResult = InvalidLineDistance
  /\ shownTypes = {}
  /\ totalDistance = 0
  /\ boundingRect = EmptyRect
  /\ trueCourse = FALSE
  /\ lastCall = Call("Route")

plainCount(l) == Cardinality({i \in 1..Len(l) : isRoute(l[i])})
hasProcedureLegs(l) == \E i \in 1..Len(l) : isAnyProcedure(l[i])

\* The editor inserts a leg of the flight plan where the route can be
\* edited, or appends it to a route without procedures, and updates the route
InsertLeg(max) ==
  \E leg \in PlainLegs, i \in 0..Len(legs) :
    /\ plainCount(legs) < max
    /\ IF i = Len(legs) THEN ~hasProcedureLegs(legs) ELSE canEditLeg(Route, i)
    /\ Becomes(updateAll([Route EXCEPT !.legs = insert(legs, i, leg),
                                      !.entries = insert(entries, i, entryOf(leg))]))
    /\ lastCall' = Call("insert")

\* The editor deletes a leg of the flight plan and updates the route; the
\* first and the last leg only when no procedure is attached
RemoveLeg ==
  \E i \in 0..(Len(legs) - 1) :
    /\ canEditPoint(Route, i)
    /\ hasProcedureLegs(legs) => i # 0 /\ i # Len(legs) - 1
    /\ Becomes(updateAll([Route EXCEPT !.legs = removeAt(legs, i),
                                      !.entries = removeAt(entries, i)]))
    /\ lastCall' = Call("removeAt")

\* The procedures are assigned and Route::updateProcedureLegs is called
UpdateProcedureLegs ==
  \E d \in DepartureProcedures, s \in StarProcedures, a \in ArrivalProcedures :
    /\ ~isEmpty(Route)
    /\ Becomes(updateProcedureLegs([Route EXCEPT !.departureLegs = d,
                                                !.starLegs = s,
                                                !.arrivalLegs = a]))
    /\ lastCall' = Call("updateProcedureLegs")

UpdateAll ==
  /\ Becomes(updateAll(Route))
  /\ lastCall' = Call("updateAll")

ClearProcedures ==
  \E type \in ClearMasks :
    /\ Becomes(clearProcedures(Route, type))
    /\ lastCall' = Call("clearProcedures")

\* The route is used once updateAll has followed updateProcedureLegs: the
\* editor calls the two together
IsUpdated == lastCall.op # "updateProcedureLegs"

UpdateActiveLegAndPos ==
  /\ IsUpdated
  /\ \E pos \in PosCourses :
       \E o \in Answers(Route, pos) :
         LET res == updateActiveLegAndPos(Route, pos, o)
         IN /\ Becomes(res.route)
            /\ lastCall' = [op |-> "updateActiveLegAndPos",
                            valid |-> pos.valid, locals |-> res.locals]

\* The values setActiveLeg is called with
ActiveLegValues == {0, 1, Len(legs) - 1, Len(legs)}

\* The answer of distanceMeterToLine for the stored sample: no result when
\* the sample is not valid, and any value when a leg read is not in the list
setActiveLegResults(r, value) ==
  LET a == IF value > 0 /\ value < size(r) THEN value ELSE 1
  IN IF a >= size(r) THEN LineDistances \cup {InvalidLineDistance}
     ELSE IF r.activePos.valid THEN LineDistances
     ELSE {InvalidLineDistance}

\* Called for a route with legs: a route of one leg is the smallest the
\* override is specified for
SetActiveLeg ==
  /\ IsUpdated
  /\ ~isEmpty(Route)
  /\ \E value \in ActiveLegValues :
       \E result \in setActiveLegResults(Route, value) :
         /\ Becomes(setActiveLeg(Route, value, result))
         /\ lastCall' = Call("setActiveLeg")

\* Route::setShownMapFeatures, defined in route.h
SetShownTypes ==
  /\ IsUpdated
  /\ \E types \in SUBSET {MISSED_APPROACH} :
       /\ Becomes([Route EXCEPT !.shownTypes = types])
       /\ UNCHANGED lastCall

\* The flight plan is edited and positions are tracked
Next ==
  \/ InsertLeg(MaxTracked)
  \/ RemoveLeg
  \/ UpdateProcedureLegs
  \/ UpdateAll
  \/ ClearProcedures
  \/ UpdateActiveLegAndPos
  \/ SetActiveLeg
  \/ SetShownTypes

Spec == Init /\ [][Next]_vars

\* The flight plan is edited while no position is tracked
NextEdit ==
  \/ InsertLeg(MaxPlain)
  \/ RemoveLeg
  \/ UpdateProcedureLegs
  \/ UpdateAll
  \/ ClearProcedures

SpecEdit == Init /\ [][NextEdit]_vars

---------------------------------------------------------------------------
(* Properties of the active-leg tracker                                    *)

\* States left by a call that ends with updateAll
AfterUpdateAll ==
  lastCall.op \in {"updateAll", "clearProcedures", "insert", "removeAt"}

\* C1: after updateActiveLegAndPos with a valid sample on a route with legs
\* the active leg is a leg of the route: leg 0 for a route of one leg, with
\* the result for the line from the first leg to the first leg, and one of
\* the legs 1 .. size - 1 for a longer route.
C1_ActiveLegInRange ==
  /\ (lastCall.op = "updateActiveLegAndPos" /\ lastCall.valid /\ Len(legs) >= 1) =>
       /\ Len(legs) = 1 => activeLeg = 0
       /\ Len(legs) >= 2 => activeLeg \in 1..(Len(legs) - 1)
  /\ Len(legs) = 1 =>
       \A pos \in PosCourses : \A o \in Answers(Route, pos) :
          pos.valid =>
            LET res == updateActiveLegAndPos(Route, pos, o).route
            IN res.activeLeg = 0 /\ res.activeLegResult = o.line[0]

\* C1 witness: a call with a valid sample went to the last leg of a route of
\* more than two legs
C1_Witness ==
  /\ lastCall.op = "updateActiveLegAndPos"
  /\ lastCall.valid
  /\ Len(legs) > 2
  /\ lastCall.locals.switchToNextLeg
  /\ activeLeg = Len(legs) - 1

\* C2: updateActiveLegAndPos on a route without legs or with a sample that
\* is not valid leaves the initial state of the tracker: no active leg, the
\* default sample, a result without status and distances, and no next leg
\* was looked at.
C2_ResetOnEmptyOrInvalid ==
  (lastCall.op = "updateActiveLegAndPos" /\ (~lastCall.valid \/ Len(legs) = 0)) =>
     /\ activeLeg = INVALID_INDEX_VALUE
     /\ activePos = InvalidPosCourse
     /\ activeLegResult.status = "INVALID"
     /\ activeLegResult.distance = INVALID_DISTANCE_VALUE
     /\ activeLegResult.distanceFrom1 = INVALID_DISTANCE_VALUE
     /\ activeLegResult.distanceFrom2 = INVALID_DISTANCE_VALUE
     /\ lastCall.locals = NoLocals

\* C2 witness: a sample that is not valid reset the tracker on a route with
\* legs and procedures
C2_Witness ==
  /\ lastCall.op = "updateActiveLegAndPos"
  /\ ~lastCall.valid
  /\ Len(legs) > 2
  /\ activeLeg = INVALID_INDEX_VALUE

\* C3: when a call of updateActiveLegAndPos decides to switch, it stays on
\* its leg, with the result for that leg, if the next leg is a missed
\* approach leg and missed approaches are not shown; in every other case the
\* next leg becomes the active leg and the result is the one for its line.
C3_SwitchUnlessHiddenMissed ==
  \A pos \in PosCourses : \A o \in Answers(Route, pos) :
    LET res == updateActiveLegAndPos(Route, pos, o)
        first == res.locals.firstLeg
        next == res.locals.nextLeg
    IN res.locals.switchToNextLeg =>
         IF isMissed(at(legs, next)) /\ MISSED_APPROACH \notin shownTypes
         THEN /\ res.route.activeLeg = first
              /\ res.route.activeLegResult = o.line[first]
         ELSE /\ res.route.activeLeg = next
              /\ res.route.activeLegResult = o.line[next]

\* C3 witness: a call decided to switch to a missed approach leg that is not
\* shown and stayed on its leg
C3_Witness ==
  /\ lastCall.op = "updateActiveLegAndPos"
  /\ lastCall.locals.switchToNextLeg
  /\ lastCall.locals.nextLeg < Len(legs)
  /\ isMissed(at(legs, lastCall.locals.nextLeg))
  /\ MISSED_APPROACH \notin shownTypes
  /\ activeLeg = lastCall.locals.firstLeg

\* C4: after updateAll the active leg is none or an index of the route.
C4_ActiveLegClamped ==
  AfterUpdateAll =>
    activeLeg = INVALID_INDEX_VALUE \/ activeLeg \in 0..(Len(legs) - 1)

\* C5: after setActiveLeg on a route with legs the active leg is one of the
\* legs 1 .. size - 1, so that the legs of its line are legs of the route.
C5_SetActiveLegInRange ==
  (lastCall.op = "setActiveLeg" /\ Len(legs) >= 1) =>
     /\ activeLeg \in 1..(Len(legs) - 1)
     /\ activeLeg - 1 \in 0..(Len(legs) - 1)

\* C6: isPassedLastLeg is true exactly when the result of the active leg is
\* after the end and the active leg is the last leg or the leg that follows
\* it is a missed approach leg; it is false in the state without an active
\* leg.  The indices are the ones updateAll derived.
C6_PassedLastLeg ==
  /\ lastCall.op # "updateProcedureLegs" =>
       (isPassedLastLeg(Route) <=>
          /\ activeLegResult.status = "AFTER_END"
          /\ \/ activeLeg = Len(legs) - 1
             \/ activeLeg + 1 < Len(legs) /\ isMissed(at(legs, activeLeg + 1)))
  /\ (activeLeg = INVALID_INDEX_VALUE /\ activeLegResult = InvalidLineDistance) =>
       ~isPassedLastLeg(Route)

---------------------------------------------------------------------------
(* Properties of the procedure blocks                                      *)

\* The legs of a list that are not procedure legs, in their order
routeLegsOf(l) == SelectSeq(l, isRoute)

\* The legs made of a procedure, in the order of the procedure
procedureLegsOf(p) == [i \in 1..procSize(p) |-> createFromApproachLeg(i - 1, p)]

\* The entry list has one entry for every leg, at the index of the leg
entriesMirror(l, e) ==
  /\ Len(e) = Len(l)
  /\ \A i \in 1..Len(l) : e[i] = entryOf(l[i])

\* The index of the first leg of a list that satisfies a test, if any
firstIndexOf(l, Test(_)) ==
  LET found == {i \in 0..(Len(l) - 1) : Test(at(l, i))}
  IN IF found = {} THEN INVALID_INDEX_VALUE
     ELSE CHOOSE i \in found : \A j \in found : i <= j

\* C7: updateProcedureLegs on a route of n >= 2 legs that are not procedure
\* legs, with an entry for every leg, gives the first leg, the departure
\* legs, the legs in between, the STAR legs, the arrival legs and the last
\* leg, in this order; the offset of a block with legs is the index of its
\* first leg (1 for the departure), the offset of a block without legs is
\* none, the blocks do not overlap, and the entry list has an entry for every
\* leg at the index of the leg.
C7_ProcedureLayout ==
  [][(/\ lastCall'.op = "updateProcedureLegs"
      /\ plainCount(legs) >= 2
      /\ entriesMirror(legs, entries)) =>
       LET plain == routeLegsOf(legs)
           n == Len(plain)
           d == procSize(departureLegs')
           s == procSize(starLegs')
           a == procSize(arrivalLegs')
       IN /\ Len(legs') = n + d + s + a
          /\ legs' = <<plain[1]>> \o procedureLegsOf(departureLegs')
                       \o SubSeq(plain, 2, n - 1)
                       \o procedureLegsOf(starLegs')
                       \o procedureLegsOf(arrivalLegs')
                       \o <<plain[n]>>
          /\ departureLegsOffset' = IF d > 0 THEN 1 ELSE INVALID_INDEX_VALUE
          /\ starLegsOffset' = IF s > 0 THEN n + d - 1 ELSE INVALID_INDEX_VALUE
          /\ arrivalLegsOffset' =
               IF a > 0 THEN n + d + s - 1 ELSE INVALID_INDEX_VALUE
          /\ (d > 0 /\ s > 0) => departureLegsOffset' + d <= starLegsOffset'
          /\ (d > 0 /\ a > 0) => departureLegsOffset' + d <= arrivalLegsOffset'
          /\ (s > 0 /\ a > 0) => starLegsOffset' + s <= arrivalLegsOffset'
          /\ entriesMirror(legs', entries')
    ]_vars

\* C7 witness: a departure, a STAR and an arrival were put into a route of
\* three legs that are not procedure legs
C7_Witness ==
  /\ lastCall.op = "updateProcedureLegs"
  /\ plainCount(legs) = 3
  /\ departureLegsOffset = 1
  /\ starLegsOffset = 2 + procSize(departureLegs)
  /\ arrivalLegsOffset = starLegsOffset + procSize(starLegs)
  /\ procSize(departureLegs) = 2
  /\ procSize(starLegs) > 0
  /\ procSize(arrivalLegs) > 0

\* C8 as stated: after updateProcedureLegs or clearProcedures on a route
\* whose leg 0 is not a procedure leg, leg 0 is still that leg.
C8_FirstLegStays ==
  [][(/\ lastCall'.op \in {"updateProcedureLegs", "clearProcedures"}
      /\ Len(legs) >= 1
      /\ isRoute(at(legs, 0))) =>
       /\ Len(legs') >= 1
       /\ isRoute(at(legs', 0))
       /\ at(legs', 0).ident = at(legs, 0).ident
       /\ at(entries', 0) = at(entries, 0)
    ]_vars

\* C8: after clearProcedures, and after updateProcedureLegs unless the route
\* has one leg that is not a procedure leg, no departure legs and STAR or
\* arrival legs, leg 0 of a route whose leg 0 is not a procedure leg is still
\* that leg; in the case left out the first STAR or arrival leg is leg 0.
C8_FirstLegStaysAmended ==
  [][(/\ lastCall'.op \in {"updateProcedureLegs", "clearProcedures"}
      /\ Len(legs) >= 1
      /\ isRoute(at(legs, 0))) =>
       IF /\ lastCall'.op = "updateProcedureLegs"
          /\ plainCount(legs) = 1
          /\ procIsEmpty(departureLegs')
          /\ ~(procIsEmpty(starLegs') /\ procIsEmpty(arrivalLegs'))
       THEN /\ isAnyProcedure(at(legs', 0))
            /\ at(legs', Len(legs') - 1) = at(legs, 0)
       ELSE /\ Len(legs') >= 1
            /\ isRoute(at(legs', 0))
            /\ at(legs', 0).ident = at(legs, 0).ident
            /\ at(entries', 0) = at(entries, 0)
    ]_vars

\* C8 witness: a departure and an arrival were put into a route and leg 0 is
\* not a procedure leg
C8_Witness ==
  /\ lastCall.op = "updateProcedureLegs"
  /\ ~procIsEmpty(departureLegs)
  /\ ~procIsEmpty(arrivalLegs)
  /\ Len(legs) = plainCount(legs) + procSize(departureLegs) + procSize(arrivalLegs)
       + procSize(starLegs)
  /\ isRoute(at(legs, 0))
  /\ isAnyDeparture(at(legs, 1))

\* C9 as stated: with the offsets of updateAll, a leg of the departure block
\* and a leg at or after the first leg of the STAR block or of the arrival
\* block cannot be edited.
C9_CanEditLeg ==
  AfterUpdateAll =>
    \A i \in 0..(Len(legs) - 1) :
      /\ (hasAnyDepartureProcedure(Route) /\ isAnyDeparture(at(legs, i)))
            => ~canEditLeg(Route, i)
      /\ (hasAnyStarProcedure(Route) /\ i >= starLegsOffset)
            => ~canEditLeg(Route, i)
      /\ (hasAnyArrivalProcedure(Route) /\ i >= arrivalLegsOffset)
            => ~canEditLeg(Route, i)

\* C9: with the offsets of updateAll, a leg of the departure block and a leg
\* after the first leg of the STAR block or of the arrival block cannot be
\* edited; the first leg of the STAR block or of the arrival block can,
\* unless the other rules say no.
C9_CanEditLegAmended ==
  AfterUpdateAll =>
    \A i \in 0..(Len(legs) - 1) :
      /\ (hasAnyDepartureProcedure(Route) /\ isAnyDeparture(at(legs, i)))
            => ~canEditLeg(Route, i)
      /\ (hasAnyStarProcedure(Route) /\ i > starLegsOffset)
            => ~canEditLeg(Route, i)
      /\ (hasAnyArrivalProcedure(Route) /\ i > arrivalLegsOffset)
            => ~canEditLeg(Route, i)
      /\ (/\ ~(hasAnyDepartureProcedure(Route)
                 /\ i < departureLegsOffset + procSize(departureLegs))
          /\ hasAnyStarProcedure(Route) => i <= starLegsOffset
          /\ hasAnyArrivalProcedure(Route) => i <= arrivalLegsOffset)
            => canEditLeg(Route, i)

\* C9 witness: updateAll gave the offsets of a departure and a STAR block,
\* the legs of both cannot be edited but for the first leg of the STAR
C9_Witness ==
  /\ AfterUpdateAll
  /\ hasAnyDepartureProcedure(Route)
  /\ hasAnyStarProcedure(Route)
  /\ ~hasAnyArrivalProcedure(Route)
  /\ starLegsOffset < Len(legs) - 1
  /\ ~canEditLeg(Route, departureLegsOffset)
  /\ ~canEditLeg(Route, starLegsOffset + 1)
  /\ canEditLeg(Route, starLegsOffset)

\* C10: after updateAll, so after clearProcedures too, the index of every leg
\* is its place in the list and every offset is the smallest index of a leg
\* of its kind, or none without such a leg; after clearProcedures for all
\* procedures the offsets are none and no leg is a procedure leg.
C10_IndicesAndOffsets ==
  /\ AfterUpdateAll =>
       /\ \A i \in 0..(Len(legs) - 1) : at(legs, i).index = i
       /\ departureLegsOffset = firstIndexOf(legs, isAnyDeparture)
       /\ starLegsOffset = firstIndexOf(legs, isAnyStar)
       /\ arrivalLegsOffset = firstIndexOf(legs, isArrival)
  /\ LET r == clearProcedures(Route, PROCEDURE_ALL)
     IN /\ r.departureLegsOffset = INVALID_INDEX_VALUE
        /\ r.starLegsOffset = INVALID_INDEX_VALUE
        /\ r.arrivalLegsOffset = INVALID_INDEX_VALUE
        /\ \A i \in 1..Len(r.legs) : ~isAnyProcedure(r.legs[i])
        /\ \A i \in 0..(Len(r.legs) - 1) : at(r.legs, i).index = i

\* C10 witness: updateAll gave indices and three offsets to a route with
\* legs of the three kinds of procedure
C10_Witness ==
  /\ lastCall.op = "updateAll"
  /\ departureLegsOffset = 1
  /\ starLegsOffset \in 2..(Len(legs) - 1)
  /\ arrivalLegsOffset \in (starLegsOffset + 1)..(Len(legs) - 1)
  /\ at(legs, Len(legs) - 1).index = Len(legs) - 1

---------------------------------------------------------------------------
(* Properties of the distances                                             *)

\* The sum of the stored distances of the legs of l with an index in keep
RECURSIVE sumDistanceTo(_, _, _)
sumDistanceTo(l, keep, i) ==
  IF i >= Len(l) THEN 0
  ELSE (IF i \in keep THEN at(l, i).distanceTo ELSE 0)
         + sumDistanceTo(l, keep, i + 1)

\* The legs that are no missed approach legs
notMissed(l) == {i \in 0..(Len(l) - 1) : ~isMissed(at(l, i))}

\* C11 as stated: after updateAll the total distance is the sum of the
\* stored distances of all legs that are no missed approach legs.
C11_TotalDistance ==
  AfterUpdateAll =>
    totalDistance = sumDistanceTo(legs, notMissed(legs), 0)

\* C11: after updateAll the total distance is the sum of the stored
\* distances of the legs that are no missed approach legs, without the
\* airport that ends a route with an arrival procedure: the distance of this
\* leg is not added.
C11_TotalDistanceAmended ==
  AfterUpdateAll =>
    totalDistance =
      sumDistanceTo(legs,
                    IF /\ ~procIsEmpty(arrivalLegs)
                       /\ at(legs, Len(legs) - 1).objType = "AIRPORT"
                    THEN notMissed(legs) \ {Len(legs) - 1}
                    ELSE notMissed(legs),
                    0)

\* C11 witness: updateAll ran on a route with an arrival procedure before
\* the airport at its end, which has a distance stored
C11_Witness ==
  /\ AfterUpdateAll
  /\ Len(legs) >= 2
  /\ ~procIsEmpty(arrivalLegs)
  /\ at(legs, Len(legs) - 1).objType = "AIRPORT"
  /\ at(legs, Len(legs) - 1).distanceTo > 0
  /\ totalDistance > 0
  /\ \E i \in 0..(Len(legs) - 1) : isMissed(at(legs, i))

---------------------------------------------------------------------------
(* Properties of the nearest leg                                           *)

\* The answers of distanceMeterToLine the scan is checked with, in meter:
\* 1 km left and right of a line, 100 NM away, more than 100 NM away, and
\* no valid result with a small distance left in it
NearestResults ==
  {LineDistance("ALONG_TRACK", 1000, 2000, 2000),
   LineDistance("ALONG_TRACK", -1000, 2000, 2000),
   LineDistance("BEFORE_START", nmToMeter(10000), 200000, 204000),
   LineDistance("AFTER_END", -200000, 204000, 200000),
   LineDistance("INVALID", 10, 10, 10)}

\* The answers for the lines of route r: two lines with any of the results,
\* every other line too far away or without a valid result
NearestTables(r) ==
  LET lines == 1..(size(r) - 1)
  IN {[i \in 0..(size(r) - 1) |-> IF i \in DOMAIN near THEN near[i] ELSE rest] :
        near \in UNION {[{a, b} -> NearestResults] : a, b \in lines},
        rest \in {TooFar, InvalidLineDistance}}
     \cup {[i \in 0..(size(r) - 1) |-> rest] : rest \in {TooFar, InvalidLineDistance}}

\* C12: for a valid sample nearestAllLegIndex gives the lowest index of a
\* line with a valid result of the least absolute distance, and the signed
\* distance of this line; it gives no index and no distance when the least
\* distance is above 100 NM, when no line has a valid result, as for a route
\* of at most one leg, and when the sample is not valid.  The index is not 0.
C12_NearestAllLegIndex ==
  \A pos \in PosCourses : \A line \in NearestTables(Route) :
    LET res == nearestAllLegIndex(Route, pos, line)
        valid == {i \in 1..(Len(legs) - 1) : line[i].status # "INVALID"}
        best == {i \in valid :
                   \A j \in valid : Abs(line[i].distance) <= Abs(line[j].distance)}
        found == /\ pos.valid
                 /\ valid # {}
                 /\ \A i \in best : Abs(line[i].distance) <= nmToMeter(10000)
    IN /\ res.index # 0
       /\ IF found
          THEN /\ res.index \in best
               /\ \A i \in best : res.index <= i
               /\ res.crossTrackDistanceMeter = line[res.index].distance
          ELSE /\ res.index = INVALID_INDEX_VALUE
               /\ res.crossTrackDistanceMeter = INVALID_DISTANCE_VALUE

\* C12 witness: a route with two lines at the same distance, left of the
\* first and right of the second, for which the scan gives the first
C12_Witness ==
  /\ Len(legs) >= 4
  /\ \E line \in NearestTables(Route) :
       /\ line[2].distance = -1000
       /\ line[3].distance = 1000
       /\ line[1].status = "INVALID"
       /\ nearestAllLegIndex(Route, [valid |-> TRUE, id |-> 1], line)
            = [crossTrackDistanceMeter |-> -1000, index |-> 2]

---------------------------------------------------------------------------
(* Properties of getRouteDistances                                         *)

\* C13: getRouteDistances returns false and writes nothing without an active
\* leg; with an active leg it returns true and writes every output parameter
\* that is not null.
C13_RouteDistancesWritten ==
  IsUpdated =>
    \A want \in SUBSET OutputNames : \A o \in DistanceAnswers(Route) :
      \A res \in getRouteDistances(Route, want, o) :
        /\ res.returns
        /\ IF activeLeg = INVALID_INDEX_VALUE
           THEN res.ret = FALSE /\ DOMAIN res.out = {}
           ELSE res.ret = TRUE /\ DOMAIN res.out = want

\* C14 as stated: when getRouteDistances succeeds for an active leg that is
\* no missed approach leg, the distance from the start and the distance to
\* the destination are not negative and the second is the total distance
\* minus the first.
C14_DistanceToDestination ==
  (IsUpdated /\ activeLeg \in 0..(Len(legs) - 1) /\ ~isMissed(at(legs, activeLeg))) =>
    \A o \in DistanceAnswers(Route) :
      \A res \in getRouteDistances(Route, OutputNames, o) :
        /\ res.ret = TRUE
        /\ res.out["distFromStart"] >= 0
        /\ res.out["distToDest"] >= 0
        /\ res.out["distToDest"] = totalDistance - res.out["distFromStart"]

\* C14: when getRouteDistances succeeds for an active leg that is no missed
\* approach leg, the distance from the start and the distance to the
\* destination are not negative, and the second is the total distance minus
\* the first where this is not negative and 0 where it is.
C14_DistanceToDestinationAmended ==
  (IsUpdated /\ activeLeg \in 0..(Len(legs) - 1) /\ ~isMissed(at(legs, activeLeg))) =>
    \A o \in DistanceAnswers(Route) :
      \A res \in getRouteDistances(Route, OutputNames, o) :
        /\ res.ret = TRUE
        /\ res.out["distFromStart"] >= 0
        /\ res.out["distToDest"] >= 0
        /\ res.out["distToDest"] =
             Max(totalDistance - res.out["distFromStart"], 0)

\* C14 witness: a sample further from the end of the active leg than the
\* route is long: the distance from the start is above the total distance
\* and the distance to the destination is 0
C14_Witness ==
  /\ IsUpdated
  /\ activeLeg \in 1..(Len(legs) - 1)
  /\ ~isMissed(at(legs, activeLeg))
  /\ totalDistance > 0
  /\ \E o \in DistanceAnswers(Route) :
       \E res \in getRouteDistances(Route, OutputNames, o) :
         /\ res.ret = TRUE
         /\ res.out["distFromStart"] > totalDistance
         /\ res.out["distToDest"] = 0

---------------------------------------------------------------------------
(* Properties of getDistanceFromStart and positionAtDistance               *)

\* C15: getDistanceFromStart gives map::INVALID_DISTANCE_VALUE when no
\* nearest line is found and when the result for the nearest line is not
\* along the track.
C15_DistanceFromStartInvalid ==
  \A pos \in PosCourses : \A line \in NearestTables(Route) :
    LET nearest == getNearestRouteLegResult(Route, pos.valid, line, FALSE)
    IN (nearest.index = INVALID_INDEX_VALUE
          \/ nearest.minResult.status # "ALONG_TRACK") =>
         getDistanceFromStart(Route, pos.valid, line) = INVALID_DISTANCE_VALUE

\* C16: for a route of legs that are no procedure legs, with the total
\* distance of updateAll, positionAtDistance(totalDistance) is the position
\* of the last leg, a valid position.
C16_PositionAtTotalDistance ==
  (AfterUpdateAll /\ Len(legs) >= 1 /\ \A i \in 1..Len(legs) : isRoute(legs[i])) =>
     positionAtDistance(Route, totalDistance) = Place(at(legs, Len(legs) - 1).pos)

\* C17: for a route of two or more legs with a total distance above 0,
\* positionAtDistance(0) is the position of leg 0, also when the first legs
\* have no length, and positionAtDistance(d) is no valid position for d
\* below 0 and for d above the total distance.
C17_PositionAtDistance ==
  (AfterUpdateAll /\ Len(legs) >= 2 /\ totalDistance > 0) =>
     /\ positionAtDistance(Route, 0) = Place(at(legs, 0).pos)
     /\ \A d \in {-2, -1, totalDistance + 1, totalDistance + 2} :
          positionAtDistance(Route, d) = EmptyPos

\* C17 witness: a route of more than two legs whose legs 0 and 1 are at the
\* same place, with the position of leg 0 at distance 0
C17_Witness ==
  /\ AfterUpdateAll
  /\ Len(legs) > 2
  /\ totalDistance > 0
  /\ at(legs, 1).distanceTo = 0
  /\ positionAtDistance(Route, 0) = Place(at(legs, 0).pos)
  /\ positionAtDistance(Route, totalDistance + 1) = EmptyPos

---------------------------------------------------------------------------
(* Properties of updateAll                                                 *)

\* What updateAll derives: the total distance, the offsets, the index of
\* every leg, the bounding rectangle and the active leg
derivedBy(r) ==
  <<r.totalDistance, r.departureLegsOffset, r.starLegsOffset,
    r.arrivalLegsOffset, [i \in 1..Len(r.legs) |-> r.legs[i].index],
    r.boundingRect, r.activeLeg>>

\* C18: a second updateAll right after updateAll leaves the total distance,
\* the three offsets, the index of every leg, the bounding rectangle and the
\* active leg as the first call left them.
C18_UpdateAllTwice ==
  LET once == updateAll(Route)
      twice == updateAll(once)
  IN /\ derivedBy(twice) = derivedBy(once)
     /\ twice.legs = once.legs
     /\ lastCall.op = "updateAll" => derivedBy(once) = derivedBy(Route)

\* C18 witness: updateAll ran on a route with an active leg and procedure
\* legs, and one more call changes nothing
C18_Witness ==
  /\ lastCall.op = "updateAll"
  /\ Len(legs) > 2
  /\ activeLeg \in 1..(Len(legs) - 1)
  /\ totalDistance > 0
  /\ departureLegsOffset = 1
  /\ updateAll(Route) = Route

---------------------------------------------------------------------------
(* Properties of the decision to switch to the next leg                    *)

\* The answers of distanceMeterToLine the decision is checked with, in
\* meter: 5 m, 50 m, 500 m and 1 km from the line, and on the line after
\* its end
DecisionResults ==
  {LineDistance("ALONG_TRACK", -5, 2000, 2000),
   LineDistance("ALONG_TRACK", 50, 2000, 2000),
   LineDistance("ALONG_TRACK", 500, 2000, 2000),
   LineDistance("BEFORE_START", -1000, 2000, 4000),
   LineDistance("AFTER_END", 0, 5000, 3000)}

\* The course differences the decision is checked with, in degree
DecisionCourses == {0, 30, 60, 120}

\* A valid sample
ValidPosCourse == [valid |-> TRUE, id |-> 1]

\* The locals of a call of updateActiveLegAndPos for a valid sample on the
\* route with active leg a, when the answer for the line of the active leg
\* is activeResult, for the line of the next leg nextLegResult, and the
\* course difference is courseDiff
decisionOf(a, activeResult, nextLegResult, courseDiff) ==
  LET r == [Route EXCEPT !.activeLeg = a]
      n == nextLegOf(r, a)
      line == [j \in 0..(Len(legs) - 1) |->
                 IF j = n THEN nextLegResult
                 ELSE IF j = a THEN activeResult ELSE TooFar]
  IN updateActiveLegAndPos(r, ValidPosCourse,
       [line |-> line, resultHold |-> InvalidLineDistance,
        courseDiff |-> courseDiff]).locals

\* C19: when the active leg and the next leg are no holds, the tracker
\* decides to switch from a procedure turn exactly when the next line is
\* less than 100 m further than the line of the active leg and the course
\* difference is below 45 degree, and from any other leg exactly when the
\* result of the active leg is after the end or the next line is less than
\* 10 m further and the course difference is below 90 degree.
C19_SwitchDecision ==
  lastCall.op = "updateAll" =>
    \A a \in 1..(Len(legs) - 2) :
      \A activeResult \in DecisionResults, nextLegResult \in DecisionResults,
         courseDiff \in DecisionCourses :
        LET locals == decisionOf(a, activeResult, nextLegResult, courseDiff)
            active == at(legs, a)
            next == at(legs, locals.nextLeg)
            closer(epsilon) ==
              Abs(nextLegResult.distance) < Abs(activeResult.distance) + epsilon
        IN (~isHold(active) /\ ~isHold(next)) =>
             (locals.switchToNextLeg <=>
                IF active.type = "PROCEDURE_TURN"
                THEN closer(100) /\ courseDiff < 45
                ELSE \/ activeResult.status = "AFTER_END"
                     \/ closer(10) /\ courseDiff < 90)

\* C19 witness: a route with a procedure turn before a leg that is no hold:
\* after the end of the turn and 500 m further from the next line the
\* tracker stays, 50 m further from the next line it switches
C19_Witness ==
  /\ lastCall.op = "updateAll"
  /\ \E a \in 1..(Len(legs) - 2) :
       /\ at(legs, a).type = "PROCEDURE_TURN"
       /\ ~isHold(at(legs, a + 1))
       /\ ~decisionOf(a, LineDistance("AFTER_END", 0, 5000, 3000),
                      LineDistance("ALONG_TRACK", 500, 2000, 2000), 0).switchToNextLeg
       /\ decisionOf(a, LineDistance("AFTER_END", 0, 5000, 3000),
                     LineDistance("ALONG_TRACK", 50, 2000, 2000), 30).switchToNextLeg

\* C20: when the active leg is no hold and the next leg is a hold, the
\* tracker decides to switch exactly when the next line is less than 0.5 NM
\* away, whatever the course difference, the type of the active leg and the
\* result of the active leg.
C20_SwitchIntoHold ==
  lastCall.op = "updateAll" =>
    \A a \in 1..(Len(legs) - 2) :
      \A activeResult \in DecisionResults, nextLegResult \in DecisionResults,
         courseDiff \in DecisionCourses :
        LET locals == decisionOf(a, activeResult, nextLegResult, courseDiff)
            active == at(legs, a)
            next == at(legs, locals.nextLeg)
        IN (~isHold(active) /\ isHold(next)) =>
             (locals.switchToNextLeg <=>
                Abs(nextLegResult.distance) < nmToMeter(50))

\* C20 witness: a route with a procedure turn before a hold: 500 m from the
\* line of the hold the tracker switches on a course that differs by 120
\* degree, 1 km from it the tracker stays after the end of the turn
C20_Witness ==
  /\ lastCall.op = "updateAll"
  /\ \E a \in 1..(Len(legs) - 2) :
       /\ at(legs, a).type = "PROCEDURE_TURN"
       /\ isHold(at(legs, a + 1))
       /\ decisionOf(a, LineDistance("ALONG_TRACK", -5, 2000, 2000),
                     LineDistance("ALONG_TRACK", 500, 2000, 2000), 120).switchToNextLeg
       /\ ~decisionOf(a, LineDistance("AFTER_END", 0, 5000, 3000),
                      LineDistance("BEFORE_START", -1000, 2000, 4000), 0).switchToNextLeg

---------------------------------------------------------------------------
(* Properties of the decision to leave a hold                              *)

\* The answers for the line of the next leg the decision is checked with:
\* 500 m from the line and 2 km or 1 km behind its start, 1 km from the
\* line, and 500 m from the line before its start
HoldNextResults ==
  {LineDistance("ALONG_TRACK", 500, 2000, 2000),
   LineDistance("ALONG_TRACK", -500, 1000, 3000),
   LineDistance("ALONG_TRACK", -1000, 2000, 2000),
   LineDistance("BEFORE_START", 500, 2000, 4000)}

\* The answers for the helper line of the hold the decision is checked
\* with: 1 km and 500 m on either side of the line, and 1 km from it before
\* its start
HoldLineResults ==
  {LineDistance("ALONG_TRACK", -1000, 2000, 2000),
   LineDistance("ALONG_TRACK", -500, 2000, 2000),
   LineDistance("ALONG_TRACK", 500, 2000, 2000),
   LineDistance("ALONG_TRACK", 1000, 2000, 2000),
   LineDistance("BEFORE_START", -1000, 2000, 4000)}

\* The answers for the line of the hold itself
HoldActiveResults ==
  {LineDistance("ALONG_TRACK", 0, 2000, 2000),
   LineDistance("AFTER_END", 0, 5000, 3000)}

\* The course differences the decision is checked with, in degree
HoldCourses == {0, 30}

\* The turn directions of a hold
TurnDirections == {"L", "R"}

\* The route with turn direction turn for the hold that is leg a
turned(r, a, turn) ==
  IF isHold(at(r.legs, a))
  THEN [r EXCEPT !.legs[a + 1].turnDirection = turn]
  ELSE r

\* The locals of a call of updateActiveLegAndPos for a valid sample on
\* route r with active leg a, when resultHold is the answer for the helper
\* line of the hold
holdDecisionOf(r, a, activeResult, nextLegResult, resultHold, courseDiff) ==
  LET ra == [r EXCEPT !.activeLeg = a]
      n == nextLegOf(ra, a)
      line == [j \in 0..(size(r) - 1) |->
                 IF j = n THEN nextLegResult
                 ELSE IF j = a THEN activeResult ELSE TooFar]
  IN updateActiveLegAndPos(ra, ValidPosCourse,
       [line |-> line, resultHold |-> resultHold,
        courseDiff |-> courseDiff]).locals

\* C21: when the active leg is a hold, the tracker decides to switch, if
\* the line of the next leg starts at the position of the hold, exactly when
\* the result for the next leg is along the track, less than 0.5 NM from
\* the line, more than 0.75 NM behind its start, and the course difference
\* is below 25 degree; otherwise exactly when the result for the helper
\* line of the hold is along the track and its distance is below -0.5 NM
\* for turn direction "R" and below 0.5 NM for any other.  The result for
\* the line of the hold itself plays no part.
C21_LeaveHold ==
  lastCall.op = "updateAll" =>
    \A a \in 1..(Len(legs) - 2), turn \in TurnDirections :
      isHold(at(legs, a)) =>
        \A activeResult \in HoldActiveResults,
           nextLegResult \in HoldNextResults,
           resultHold \in HoldLineResults, courseDiff \in HoldCourses :
          LET r == turned(Route, a, turn)
              locals == holdDecisionOf(r, a, activeResult, nextLegResult,
                                       resultHold, courseDiff)
              active == at(r.legs, a)
              next == at(r.legs, locals.nextLeg)
          IN locals.switchToNextLeg <=>
               IF next.linePos1 = active.pos
               THEN /\ nextLegResult.status = "ALONG_TRACK"
                    /\ Abs(nextLegResult.distance) < 926
                    /\ nextLegResult.distanceFrom1 > 1389
                    /\ courseDiff < 25
               ELSE /\ resultHold.status = "ALONG_TRACK"
                    /\ resultHold.distance < (IF turn = "R" THEN -926 ELSE 926)

\* C21 witness: a route with a hold before a leg whose line does not start
\* at the hold: after the end of the line of the hold the tracker stays in
\* the hold 500 m inside of the helper line of a right turn, and leaves the
\* hold 1 km beyond it
C21_Witness ==
  /\ lastCall.op = "updateAll"
  /\ \E a \in 1..(Len(legs) - 2) :
       /\ isHold(at(legs, a))
       /\ at(legs, nextLegOf(Route, a)).linePos1 # at(legs, a).pos
       /\ ~holdDecisionOf(turned(Route, a, "R"), a,
                          LineDistance("AFTER_END", 0, 5000, 3000),
                          LineDistance("ALONG_TRACK", 500, 2000, 2000),
                          LineDistance("ALONG_TRACK", -500, 2000, 2000),
                          0).switchToNextLeg
       /\ holdDecisionOf(turned(Route, a, "R"), a,
                         LineDistance("AFTER_END", 0, 5000, 3000),
                         LineDistance("ALONG_TRACK", 500, 2000, 2000),
                         LineDistance("ALONG_TRACK", -1000, 2000, 2000),
                         0).switchToNextLeg

---------------------------------------------------------------------------
(* Properties of the potential next leg                                    *)

\* The route that ends after its first k legs: the procedure at its end has
\* fewer legs
firstLegs(r, k) == [r EXCEPT !.legs = SubSeq(r.legs, 1, k)]

\* The potential next leg of a call of updateActiveLegAndPos for a valid
\* sample on route r with active leg a
candidateOf(r, a) ==
  LET ra == [r EXCEPT !.activeLeg = a]
      line == [j \in 0..(size(r) - 1) |-> TooFar]
  IN updateActiveLegAndPos(ra, ValidPosCourse,
       [line |-> line, resultHold |-> InvalidLineDistance,
        courseDiff |-> 0]).locals.nextLeg

\* C22: on a route of two legs or more with a leg after the active leg, the
\* potential next leg is after the active leg and a leg of the route, as is
\* every leg the loops read; every leg stepped over is an initial fix or a
\* start of procedure, and, when the active leg is no hold, is at the
\* position of the leg before it and so of the active leg; a potential next
\* leg that is reached by stepping over a leg is leg size - 2 at most.
C22_NextLegCandidate ==
  lastCall.op = "updateAll" =>
    \A k \in 2..Len(legs) :
      \A a \in 1..(k - 2) :
        LET r == firstLegs(Route, k)
            active == at(r.legs, a)
            nextLeg == candidateOf(r, a)
            skipped == (a + 1)..(nextLeg - 1)
            read == a..nextLeg
        IN /\ a < nextLeg /\ nextLeg <= size(r) - 1
           /\ read \subseteq 0..(size(r) - 1)
           /\ \A i \in skipped :
                /\ isInitialFix(at(r.legs, i))
                /\ ~isHold(active) =>
                     /\ at(r.legs, i).pos = at(r.legs, i - 1).pos
                     /\ at(r.legs, i).pos = active.pos
           /\ skipped # {} => nextLeg <= size(r) - 2

\* C22 witness: a route where the tracker steps from a leg that is no hold
\* over an initial fix at the same position, and, when the route ends with
\* the leg after the fix, stays at the fix
C22_Witness ==
  /\ lastCall.op = "updateAll"
  /\ \E a \in 1..(Len(legs) - 3) :
       /\ ~isHold(at(legs, a))
       /\ isInitialFix(at(legs, a + 1))
       /\ at(legs, a + 1).pos = at(legs, a).pos
       /\ candidateOf(Route, a) = a + 2
       /\ candidateOf(firstLegs(Route, a + 3), a) = a + 1

---------------------------------------------------------------------------
(* Properties of eraseProcedureLegs                                        *)

\* The masks eraseProcedureLegs is checked with: every set of type bits
EraseMasks == SUBSET PROCEDURE_ALL

\* The elements of l from index i on whose index is not in drop, in order
RECURSIVE without(_, _, _)
without(l, drop, i) ==
  IF i >= Len(l) THEN <<>>
  ELSE (IF i \in drop THEN <<>> ELSE <<at(l, i)>>) \o without(l, drop, i + 1)

\* The indexes of the legs whose procedure type shares a bit with type
matching(l, type) == {i \in 0..(Len(l) - 1) : at(l, i).mapType \in type}

\* C23: on a route with as many flight plan entries as legs,
\* eraseProcedureLegs removes exactly the legs whose procedure type shares
\* a bit with the mask, and the entries at the same indexes; it removes at
\* strictly descending indexes, each an index of both lists when it is
\* removed; the legs and entries that stay keep their order and the lists
\* end with the same length.
C23_EraseProcedureLegs ==
  Len(entries) = Len(legs) =>
    \A type \in EraseMasks :
      LET erased == eraseProcedureLegs(Route, type)
          indexes == collectIndexes(Route, type, size(Route) - 1)
          drop == matching(legs, type)
      IN /\ erased.legs = without(legs, drop, 0)
         /\ erased.entries = without(entries, drop, 0)
         /\ \A i \in 0..(Len(indexes) - 1) :
              /\ i > 0 => at(indexes, i) < at(indexes, i - 1)
              /\ at(indexes, i) >= 0
              /\ at(indexes, i) < Len(legs) - i
              /\ at(indexes, i) < Len(entries) - i
         /\ {at(indexes, i) : i \in 0..(Len(indexes) - 1)} = drop
         /\ Len(erased.legs) = Len(erased.entries)

\* C23 witness: a route with as many entries as legs that starts with a
\* leg of the flight plan, has legs of a STAR in the middle and legs of
\* another procedure after them; erasing the STAR removes the legs in the
\* middle only
C23_Witness ==
  /\ Len(entries) = Len(legs)
  /\ Len(legs) >= 4
  /\ isRoute(at(legs, 0))
  /\ matching(legs, PROCEDURE_STAR_ALL) # {}
  /\ \E i \in matching(legs, PROCEDURE_ARRIVAL) :
       \A j \in matching(legs, PROCEDURE_STAR_ALL) : j < i
  /\ Len(eraseProcedureLegs(Route, PROCEDURE_STAR_ALL).legs) < Len(legs)
  /\ matching(eraseProcedureLegs(Route, PROCEDURE_STAR_ALL).legs,
              PROCEDURE_ARRIVAL) # {}
  /\ lastCall.op = "clearProcedures"

---------------------------------------------------------------------------
(* Properties of a sequence of samples                                     *)

\* The state is left by a call of updateActiveLegAndPos with a valid sample
\* on a route of two legs or more
Tracked ==
  /\ lastCall.op = "updateActiveLegAndPos"
  /\ lastCall.valid
  /\ Len(legs) >= 2

\* C24: a call of updateActiveLegAndPos with a valid sample that follows
\* such a call on the same route of two legs or more, with no other call
\* in between, keeps the active leg or makes the potential next leg of the
\* call the active leg: the active leg never decreases.
C24_ActiveLegAdvances ==
  [][(Tracked /\ Tracked') =>
       /\ activeLeg' \in {activeLeg, lastCall'.locals.nextLeg}
       /\ activeLeg' >= activeLeg]_vars

\* C24 witness: a call with a valid sample left the tracker on a leg of a
\* route of three legs or more, and with the next valid sample the tracker
\* goes on to the potential next leg
C24_Witness ==
  /\ Tracked
  /\ Len(legs) >= 3
  /\ activeLeg \in 1..(Len(legs) - 2)
  /\ \E o \in Answers(Route, ValidPosCourse) :
       LET res == updateActiveLegAndPos(Route, ValidPosCourse, o)
       IN /\ res.locals.switchToNextLeg
          /\ res.route.activeLeg = res.locals.nextLeg
          /\ res.route.activeLeg > activeLeg

---------------------------------------------------------------------------
(* Properties of the tracker while missed approaches are not shown         *)

\* The active leg is a missed approach leg of the route
OnMissed(l, a) == a \in 0..(Len(l) - 1) /\ isMissed(at(l, a))

\* C25: while missed approaches are not shown, a call of
\* updateActiveLegAndPos with a valid sample on a route of two legs or
\* more, made without an active leg or after such a call that left the
\* tracker off the missed approach, leaves the tracker off the missed
\* approach: starting without an active leg, no sequence of valid samples
\* makes a missed approach leg the active leg.
C25_NeverOnHiddenMissed ==
  [][(/\ MISSED_APPROACH \notin shownTypes
      /\ Tracked'
      /\ legs' = legs
      /\ \/ activeLeg = INVALID_INDEX_VALUE
         \/ Tracked /\ ~OnMissed(legs, activeLeg))
     => ~OnMissed(legs', activeLeg')]_vars

---------------------------------------------------------------------------
(* Properties of the first sample                                          *)

\* The answers a call can get, and the answers when every line gives no
\* valid result or is 200 km behind the sample
FirstAnswers(r) ==
  Answers(r, ValidPosCourse)
    \cup {[line |-> [i \in 0..(size(r) - 1) |-> d],
           resultHold |-> InvalidLineDistance, courseDiff |-> 0] :
            d \in {InvalidLineDistance,
                   LineDistance("AFTER_END", -200000, 204000, 200000)}}

\* C26: without an active leg, updateActiveLegAndPos with a valid sample on
\* a route of two legs or more for which nearestAllLegIndex finds no leg
\* makes the last leg the active leg, with the result for the line from leg
\* size - 2 to leg size - 1.
C26_StartAtLastLeg ==
  (activeLeg = INVALID_INDEX_VALUE /\ Len(legs) >= 2 /\ IsUpdated) =>
    \A o \in FirstAnswers(Route) :
      nearestAllLegIndex(Route, ValidPosCourse, o.line).index
          = INVALID_INDEX_VALUE =>
        LET res == updateActiveLegAndPos(Route, ValidPosCourse, o)
        IN /\ res.route.activeLeg = Len(legs) - 1
           /\ res.route.activeLegResult = o.line[Len(legs) - 1]
           /\ res.locals.firstLeg = Len(legs) - 1
           /\ ~res.locals.switchToNextLeg

\* C26 witness: a call with a valid sample that is more than 100 NM from
\* every line left the tracker on the last leg of a route of three legs or
\* more, with the result for the last line
C26_Witness ==
  /\ Tracked
  /\ Len(legs) >= 3
  /\ activeLeg = Len(legs) - 1
  /\ lastCall.locals.firstLeg = Len(legs) - 1
  /\ ~lastCall.locals.switchToNextLeg
  /\ activeLegResult = TooFar
  /\ activePos = ValidPosCourse

=============================================================================
